---- MODULE Spec2Model ----
(***************************************************************************)
(* Model of tim_shared/messaging.py: MessageProducer (Kafka first, SQS     *)
(* fallback), the get_message_producer registry and MessageConsumer.       *)
(* Every action is one atomic block of a coroutine: the code between two   *)
(* points where the coroutine really suspends (kafka start / send_and_wait *)
(* / stop, a lock wait, the handler, asyncio.sleep).                       *)
(***************************************************************************)
EXTENDS FiniteSets, Integers, Sequences, TLC

\* ------------------------------------------------------------- bounds
MaxTasks == 2
MaxCalls == 3
MaxClock == 1
MaxStarts == 2
MaxRecords == 2
MaxMsgs == 2
MaxHandled == 2
\* a producer and a consumer side by side: producer calls, start_consuming
\* calls and handler invocations
MaxPairCalls == 1
MaxPairStarts == 1
MaxPairHandled == 1

Tasks     == 1..MaxTasks
Producers == 1..(MaxCalls + 1)
KClients  == 1..MaxCalls
None      == 0
\* a MessageProducer() the application constructed itself; the registry
\* constructs the others
Own       == 1
NoConfig  == [loaded |-> FALSE]

\* ------------------------------------------------------------- inputs
Topics == {"exchange-rates", "user-events"}

\* config.messaging.sqs_queue_urls: a topic whose environment variable is
\* unset maps to the empty string
sqs_queue_urls == [tp \in Topics |-> IF tp = "exchange-rates" THEN "url" ELSE ""]

\* the configurations get_config() can return once init_config() has run
Configs ==
    [loaded : {TRUE}, environment : {"local", "prod"},
     kafka_bootstrap_servers : BOOLEAN, sqs_queue_url : BOOLEAN]

\* payload values are <<text, number>> pairs; <<"obj", 0>> is a value json
\* cannot encode natively (a datetime); the payload has a key of its own, a
\* key holding such a value and a key the envelope also sets
Payloads ==
    { [k \in {"type", "at", "timestamp"} |->
          IF k = "type" THEN <<"rate", 0>>
          ELSE IF k = "at" THEN <<"obj", 0>> ELSE <<"caller", 0>>] }

NoEnvelope == [k \in {} |-> <<"", 0>>]
MetaKeys   == {"timestamp", "message_id", "producer_service"}

\* enriched_message = {**message, 'timestamp':..., 'message_id':..., 'producer_service':...}
Enrich(message, ts, id) ==
    [k \in (DOMAIN message) \cup MetaKeys |->
        IF k = "timestamp" THEN <<"iso", ts>>
        ELSE IF k = "message_id" THEN <<"uuid", id>>
        ELSE IF k = "producer_service" THEN <<"service_name", 0>>
        ELSE message[k]]

\* json.dumps(enriched_message, default=str)
JsonDumps(m) ==
    [k \in DOMAIN m |-> IF m[k][1] = "obj" THEN <<"str(obj)", m[k][2]>> ELSE m[k]]

VARIABLES
    KAFKA_AVAILABLE,   \* module flag, line 34/37
    SQS_AVAILABLE,     \* module flag, line 43/45
    cfg,               \* what config.get_config() returns (NoConfig: it raises)
    clock,             \* datetime.utcnow()
    uuids,             \* number of uuid4() values drawn
    producers,         \* MessageProducer objects
    kclient,           \* AIOKafkaProducer objects
    message_producer,  \* _message_producer
    lockHolder,        \* _producer_lock
    lockWaiters,
    pc,                \* where each task's coroutine is suspended
    call,              \* the call each task runs / ran last
    calls              \* number of calls started

pvars == <<KAFKA_AVAILABLE, SQS_AVAILABLE, cfg, clock, uuids, producers, kclient,
           message_producer, lockHolder, lockWaiters, pc, call, calls>>

VARIABLES
    consumer,          \* the MessageConsumer object
    kconsumer,         \* its AIOKafkaConsumer object
    cpc,               \* where start_consuming is suspended
    craisedAt,         \* where the MessagingError of start_consuming came from
    starts,            \* number of start_consuming calls
    spc,               \* where stop() is suspended
    stopAt,            \* where start_consuming was when stop() was called
    pulled,            \* records the Kafka iterator has returned
    handled,           \* handler invocations, in order
    queue,             \* the SQS queue: state of each message
    malformed,         \* messages whose Body is not JSON
    batch,             \* response['Messages'] still to be looped over
    deletes,           \* delete_message calls per message
    asyncio_coroutine, \* whether the interpreter's asyncio has coroutine()
    stopStarts         \* number of start_consuming calls made when stop() returned

cvars == <<consumer, kconsumer, cpc, craisedAt, starts, spc, stopAt, pulled, handled,
           queue, malformed, batch, deletes, asyncio_coroutine,
           stopStarts>>

vars == <<pvars, cvars>>

Records == 1..MaxRecords
Msgs    == 1..MaxMsgs

\* MessageConsumer.__init__, lines 256-263
NewConsumer ==
    [config |-> FALSE, kafka_consumer |-> FALSE, sqs_client |-> FALSE,
     running |-> FALSE, initialized |-> FALSE]

InitConsumer ==
    /\ consumer = NewConsumer
    /\ kconsumer = "unused"
    /\ cpc = "idle"
    /\ craisedAt = ""
    /\ starts = 0
    /\ spc = "idle"
    /\ stopAt = ""
    /\ pulled = 0
    /\ handled = <<>>
    /\ queue = [m \in Msgs |-> "visible"]
    /\ malformed \in {{}, {MaxMsgs}}    \* all bodies are JSON, or the last is not
    /\ batch = <<>>
    /\ deletes = [m \in Msgs |-> 0]
    /\ asyncio_coroutine \in BOOLEAN
    /\ stopStarts = 0

\* the producer side does not see the consumer
IdleConsumer ==
    /\ consumer = NewConsumer
    /\ kconsumer = "unused"
    /\ cpc = "idle"
    /\ craisedAt = ""
    /\ starts = 0
    /\ spc = "idle"
    /\ stopAt = ""
    /\ pulled = 0
    /\ handled = <<>>
    /\ queue = [m \in Msgs |-> "visible"]
    /\ malformed = {}
    /\ batch = <<>>
    /\ deletes = [m \in Msgs |-> 0]
    /\ asyncio_coroutine = FALSE
    /\ stopStarts = 0

\* MessageProducer.__init__ (constructed = the object exists)
NewProducer ==
    [constructed |-> TRUE, config |-> FALSE, kafka_producer |-> None,
     sqs_client |-> FALSE, initialized |-> FALSE, use_kafka |-> FALSE,
     init_runs |-> 0, closes |-> 0, sqs_attempts |-> 0]

NoProducer == [NewProducer EXCEPT !.constructed = FALSE]

NoCall ==
    [op |-> "none", p |-> None, topic |-> "", message |-> NoEnvelope,
     envelope |-> NoEnvelope, start |-> 0,
     client |-> None,
     kafkaSends |-> 0, kafkaValue |-> NoEnvelope, kafkaOk |-> FALSE,
     kafkaRaised |-> FALSE,
     sqsHandle |-> FALSE, sqsSends |-> 0, sqsBody |-> NoEnvelope, sqsOk |-> FALSE,
     errorLogs |-> 0, ret |-> "none", retp |-> None,
     retInitialized |-> FALSE, waited |-> FALSE,
     raised |-> "none", raisedAt |-> "", closesSeen |-> 0]

\* the process before any producer exists: producers come from the registry
Init ==
    /\ KAFKA_AVAILABLE \in BOOLEAN
    /\ SQS_AVAILABLE \in BOOLEAN
    /\ cfg = NoConfig
    /\ clock = 0
    /\ uuids = 0
    /\ producers = [p \in Producers |-> NoProducer]
    /\ kclient = [k \in KClients |-> "unused"]
    /\ message_producer = None
    /\ lockHolder = None
    /\ lockWaiters = <<>>
    /\ pc = [t \in Tasks |-> "idle"]
    /\ call = [t \in Tasks |-> NoCall]
    /\ calls = 0
    /\ IdleConsumer

\* the application has constructed its own MessageProducer()
InitOwn ==
    /\ KAFKA_AVAILABLE \in BOOLEAN
    /\ SQS_AVAILABLE \in BOOLEAN
    /\ cfg = NoConfig
    /\ clock = 0
    /\ uuids = 0
    /\ producers = [p \in Producers |-> IF p = Own THEN NewProducer ELSE NoProducer]
    /\ kclient = [k \in KClients |-> "unused"]
    /\ message_producer = None
    /\ lockHolder = None
    /\ lockWaiters = <<>>
    /\ pc = [t \in Tasks |-> "idle"]
    /\ call = [t \in Tasks |-> NoCall]
    /\ calls = 0
    /\ IdleConsumer

\* ------------------------------------------------------------- helpers
FreshProducer == CHOOSE p \in Producers \ {Own} :
    /\ ~producers[p].constructed
    /\ \A q \in Producers \ {Own} : q < p => producers[q].constructed

FreshClient == CHOOSE k \in KClients :
    /\ kclient[k] = "unused"
    /\ \A j \in KClients : j < k => kclient[j] # "unused"

\* leaving `async with _producer_lock`: the first waiter gets the lock
ReleaseLock ==
    IF lockWaiters = <<>>
    THEN lockHolder' = None /\ lockWaiters' = lockWaiters
    ELSE lockHolder' = Head(lockWaiters) /\ lockWaiters' = Tail(lockWaiters)

\* the end of an atomic block of task t
Commit(t, prods, kc, c, newpc, mp, uu, release) ==
    /\ producers' = prods
    /\ kclient' = kc
    /\ call' = [call EXCEPT ![t] = c]
    /\ pc' = [pc EXCEPT ![t] = newpc]
    /\ message_producer' = mp
    /\ uuids' = uu
    /\ IF release THEN ReleaseLock ELSE UNCHANGED <<lockHolder, lockWaiters>>
    /\ UNCHANGED <<KAFKA_AVAILABLE, SQS_AVAILABLE, cfg, clock>>
    /\ UNCHANGED cvars

\* _init_sqs_client, lines 126-152: boto3.client returns a client or raises
InitSqsClient(pr, ok) == [pr EXCEPT !.sqs_client = ok, !.sqs_attempts = @ + 1]

\* initialize, lines 89-92
InitializeTail(pr, sqsOk) ==
    [(IF SQS_AVAILABLE THEN InitSqsClient(pr, sqsOk) ELSE pr)
        EXCEPT !.initialized = TRUE]

\* mutant: the fallback builds a new envelope with its own message_id
SqsFallback_fresh_envelope(t, prods, kc, c, uu) ==
    LET queue_url == sqs_queue_urls[c.topic] IN
    IF prods[c.p].sqs_client /\ queue_url # ""
    THEN \E ok \in BOOLEAN :
            Commit(t, prods, kc,
                   [c EXCEPT !.sqsHandle = TRUE,
                             !.sqsSends = @ + 1,
                             !.sqsBody = JsonDumps(Enrich(c.message, clock, uu + 1)),
                             !.sqsOk = ok,
                             !.errorLogs = IF ok THEN @ ELSE @ + 2,
                             !.ret = IF ok THEN "true" ELSE "false"],
                   "idle", message_producer, uu + 1, FALSE)
    ELSE Commit(t, prods, kc,
                [c EXCEPT !.sqsHandle = prods[c.p].sqs_client,
                          !.errorLogs = @ + 1, !.ret = "false"],
                "idle", message_producer, uu, FALSE)

\* mutant: the queue body is the caller's payload, not the enriched message
SqsFallback_payload(t, prods, kc, c, uu) ==
    LET queue_url == sqs_queue_urls[c.topic] IN
    IF prods[c.p].sqs_client /\ queue_url # ""
    THEN \E ok \in BOOLEAN :
            Commit(t, prods, kc,
                   [c EXCEPT !.sqsHandle = TRUE,
                             !.sqsSends = @ + 1,
                             !.sqsBody = JsonDumps(c.message),
                             !.sqsOk = ok,
                             !.errorLogs = IF ok THEN @ ELSE @ + 2,
                             !.ret = IF ok THEN "true" ELSE "false"],
                   "idle", message_producer, uu, FALSE)
    ELSE Commit(t, prods, kc,
                [c EXCEPT !.sqsHandle = prods[c.p].sqs_client,
                          !.errorLogs = @ + 1, !.ret = "false"],
                "idle", message_producer, uu, FALSE)

\* mutant: the raise of lines 237-241 is not commented out
SqsFallback_raise(t, prods, kc, c, uu) ==
    LET queue_url == sqs_queue_urls[c.topic] IN
    IF prods[c.p].sqs_client /\ queue_url # ""
    THEN \E ok \in BOOLEAN :
            Commit(t, prods, kc,
                   [c EXCEPT !.sqsHandle = TRUE,
                             !.sqsSends = @ + 1,
                             !.sqsBody = JsonDumps(c.envelope),
                             !.sqsOk = ok,
                             !.errorLogs = IF ok THEN @ ELSE @ + 2,
                             !.ret = IF ok THEN "true" ELSE "none",
                             !.raised = IF ok THEN "none" ELSE "MessagingError",
                             !.raisedAt = IF ok THEN "" ELSE "send_message"],
                   "idle", message_producer, uu, FALSE)
    ELSE Commit(t, prods, kc,
                [c EXCEPT !.sqsHandle = prods[c.p].sqs_client,
                          !.errorLogs = @ + 1,
                          !.raised = "MessagingError", !.raisedAt = "send_message"],
                "idle", message_producer, uu, FALSE)

\* mutant: a topic without queue URL is sent to the queue client all the same
SqsFallback_any_topic(t, prods, kc, c, uu) ==
    IF prods[c.p].sqs_client
    THEN \E ok \in BOOLEAN :
            Commit(t, prods, kc,
                   [c EXCEPT !.sqsHandle = TRUE,
                             !.sqsSends = @ + 1,
                             !.sqsBody = JsonDumps(c.envelope),
                             !.sqsOk = ok,
                             !.errorLogs = IF ok THEN @ ELSE @ + 2,
                             !.ret = IF ok THEN "true" ELSE "false"],
                   "idle", message_producer, uu, FALSE)
    ELSE Commit(t, prods, kc,
                [c EXCEPT !.sqsHandle = prods[c.p].sqs_client,
                          !.errorLogs = @ + 1, !.ret = "false"],
                "idle", message_producer, uu, FALSE)

\* send_message, lines 205-242: the queue fallback and the final return
SqsFallback(t, prods, kc, c, uu) ==
    LET queue_url == sqs_queue_urls[c.topic] IN
    IF prods[c.p].sqs_client /\ queue_url # ""
    THEN \E ok \in BOOLEAN :
            Commit(t, prods, kc,
                   [c EXCEPT !.sqsHandle = TRUE,
                             !.sqsSends = @ + 1,
                             !.sqsBody = JsonDumps(c.envelope),
                             !.sqsOk = ok,
                             !.errorLogs = IF ok THEN @ ELSE @ + 2,
                             !.ret = IF ok THEN "true" ELSE "false"],
                   "idle", message_producer, uu, FALSE)
    ELSE Commit(t, prods, kc,
                [c EXCEPT !.sqsHandle = prods[c.p].sqs_client,
                          !.errorLogs = @ + 1, !.ret = "false"],
                "idle", message_producer, uu, FALSE)

\* mutant: the message_id is the producer's, not a fresh uuid4 per call
BuildAndSend_same_id(t, prods, kc, c) ==
    LET c1 == [c EXCEPT !.envelope = Enrich(c.message, clock, c.p)] IN
    IF prods[c.p].kafka_producer # None
    THEN Commit(t, prods, kc,
                [c1 EXCEPT !.kafkaSends = @ + 1, !.kafkaValue = c1.envelope],
                "send_kafka", message_producer, uuids + 1, FALSE)
    ELSE SqsFallback(t, prods, kc, c1, uuids + 1)

\* send_message, lines 176-192: build the envelope, try Kafka first
BuildAndSend(t, prods, kc, c) ==
    LET c1 == [c EXCEPT !.envelope = Enrich(c.message, clock, uuids + 1)] IN
    IF prods[c.p].kafka_producer # None
    THEN Commit(t, prods, kc,
                [c1 EXCEPT !.kafkaSends = @ + 1, !.kafkaValue = c1.envelope],
                "send_kafka", message_producer, uuids + 1, FALSE)
    ELSE SqsFallback(t, prods, kc, c1, uuids + 1)

\* what the caller of initialize() does once it has returned
AfterInitialize(t, prods, kc, c) ==
    CASE c.op = "get" ->
            \* get_message_producer, lines 464-466
            Commit(t, prods, kc,
                   [c EXCEPT !.retp = c.p, !.ret = "producer",
                             !.retInitialized = prods[c.p].initialized],
                   "idle", c.p, uuids, TRUE)
      [] c.op = "send" -> BuildAndSend(t, prods, kc, c)
      [] OTHER ->
            Commit(t, prods, kc, [c EXCEPT !.ret = "returned"],
                   "idle", message_producer, uuids, FALSE)

\* mutant: initialize without the `if self._initialized: return` of line 69
Initialize_unchecked(t, prods, c) ==
    LET pr == prods[c.p]
        run == [pr EXCEPT !.init_runs = @ + 1] IN
    IF ~cfg.loaded
    THEN Commit(t, [prods EXCEPT ![c.p] = run], kclient,
                [c EXCEPT !.raised = "MessagingError", !.raisedAt = "initialize",
                          !.errorLogs = @ + 1],
                "idle", message_producer, uuids, c.op = "get")
    ELSE
    LET pr1 == [run EXCEPT !.config = TRUE,
                           !.use_kafka = KAFKA_AVAILABLE /\ cfg.environment # "local"]
    IN
    IF pr1.use_kafka /\ cfg.kafka_bootstrap_servers
    THEN \/ Commit(t, [prods EXCEPT ![c.p] = [pr1 EXCEPT !.kafka_producer = FreshClient]],
                   [kclient EXCEPT ![FreshClient] = "constructed"],
                   [c EXCEPT !.client = FreshClient],
                   "init_kstart", message_producer, uuids, FALSE)
         \/ \E sqsOk \in BOOLEAN :
               AfterInitialize(t,
                   [prods EXCEPT ![c.p] =
                       InitializeTail([pr1 EXCEPT !.kafka_producer = None], sqsOk)],
                   kclient, c)
    ELSE \E sqsOk \in BOOLEAN :
            AfterInitialize(t, [prods EXCEPT ![c.p] = InitializeTail(pr1, sqsOk)],
                            kclient, c)

\* mutant: the initialized flag is set before the configuration is read
Initialize_flag_first(t, prods, c) ==
    LET pr == prods[c.p] IN
    IF pr.initialized
    THEN AfterInitialize(t, prods, kclient, c)
    ELSE
    LET run == [pr EXCEPT !.init_runs = @ + 1, !.initialized = TRUE] IN
    IF ~cfg.loaded
    THEN Commit(t, [prods EXCEPT ![c.p] = run], kclient,
                [c EXCEPT !.raised = "MessagingError", !.raisedAt = "initialize",
                          !.errorLogs = @ + 1],
                "idle", message_producer, uuids, c.op = "get")
    ELSE
    LET pr1 == [run EXCEPT !.config = TRUE,
                           !.use_kafka = KAFKA_AVAILABLE /\ cfg.environment # "local"]
    IN
    IF pr1.use_kafka /\ cfg.kafka_bootstrap_servers
    THEN \/ Commit(t, [prods EXCEPT ![c.p] = [pr1 EXCEPT !.kafka_producer = FreshClient]],
                   [kclient EXCEPT ![FreshClient] = "constructed"],
                   [c EXCEPT !.client = FreshClient],
                   "init_kstart", message_producer, uuids, FALSE)
         \/ \E sqsOk \in BOOLEAN :
               AfterInitialize(t,
                   [prods EXCEPT ![c.p] =
                       InitializeTail([pr1 EXCEPT !.kafka_producer = None], sqsOk)],
                   kclient, c)
    ELSE \E sqsOk \in BOOLEAN :
            AfterInitialize(t, [prods EXCEPT ![c.p] = InitializeTail(pr1, sqsOk)],
                            kclient, c)

\* mutant: use_kafka ignores the environment profile
Initialize_any_profile(t, prods, c) ==
    LET pr == prods[c.p] IN
    IF pr.initialized
    THEN AfterInitialize(t, prods, kclient, c)
    ELSE
    LET run == [pr EXCEPT !.init_runs = @ + 1] IN
    IF ~cfg.loaded
    THEN \* get_config() raises: lines 95-97
         Commit(t, [prods EXCEPT ![c.p] = run], kclient,
                [c EXCEPT !.raised = "MessagingError", !.raisedAt = "initialize",
                          !.errorLogs = @ + 1],
                "idle", message_producer, uuids, c.op = "get")
    ELSE
    LET pr1 == [run EXCEPT !.config = TRUE,
                           !.use_kafka = KAFKA_AVAILABLE]
    IN
    IF pr1.use_kafka /\ cfg.kafka_bootstrap_servers
    THEN \* _init_kafka_producer, lines 105-118: suspends in start()
         \/ Commit(t, [prods EXCEPT ![c.p] = [pr1 EXCEPT !.kafka_producer = FreshClient]],
                   [kclient EXCEPT ![FreshClient] = "constructed"],
                   [c EXCEPT !.client = FreshClient],
                   "init_kstart", message_producer, uuids, FALSE)
         \* the AIOKafkaProducer constructor raises: lines 122-124
         \/ \E sqsOk \in BOOLEAN :
               AfterInitialize(t,
                   [prods EXCEPT ![c.p] =
                       InitializeTail([pr1 EXCEPT !.kafka_producer = None], sqsOk)],
                   kclient, c)
    ELSE \E sqsOk \in BOOLEAN :
            AfterInitialize(t, [prods EXCEPT ![c.p] = InitializeTail(pr1, sqsOk)],
                            kclient, c)

\* mutant: the exception leaves `async with _producer_lock` without releasing it
Initialize_keeps_lock(t, prods, c) ==
    LET pr == prods[c.p] IN
    IF pr.initialized
    THEN AfterInitialize(t, prods, kclient, c)
    ELSE
    LET run == [pr EXCEPT !.init_runs = @ + 1] IN
    IF ~cfg.loaded
    THEN \* get_config() raises: lines 95-97
         Commit(t, [prods EXCEPT ![c.p] = run], kclient,
                [c EXCEPT !.raised = "MessagingError", !.raisedAt = "initialize",
                          !.errorLogs = @ + 1],
                "idle", message_producer, uuids, FALSE)
    ELSE
    LET pr1 == [run EXCEPT !.config = TRUE,
                           !.use_kafka = KAFKA_AVAILABLE /\ cfg.environment # "local"]
    IN
    IF pr1.use_kafka /\ cfg.kafka_bootstrap_servers
    THEN \* _init_kafka_producer, lines 105-118: suspends in start()
         \/ Commit(t, [prods EXCEPT ![c.p] = [pr1 EXCEPT !.kafka_producer = FreshClient]],
                   [kclient EXCEPT ![FreshClient] = "constructed"],
                   [c EXCEPT !.client = FreshClient],
                   "init_kstart", message_producer, uuids, FALSE)
         \* the AIOKafkaProducer constructor raises: lines 122-124
         \/ \E sqsOk \in BOOLEAN :
               AfterInitialize(t,
                   [prods EXCEPT ![c.p] =
                       InitializeTail([pr1 EXCEPT !.kafka_producer = None], sqsOk)],
                   kclient, c)
    ELSE \E sqsOk \in BOOLEAN :
            AfterInitialize(t, [prods EXCEPT ![c.p] = InitializeTail(pr1, sqsOk)],
                            kclient, c)

\* initialize, lines 67-97, up to the point where it suspends or returns
Initialize(t, prods, c) ==
    LET pr == prods[c.p] IN
    IF pr.initialized
    THEN AfterInitialize(t, prods, kclient, c)
    ELSE
    LET run == [pr EXCEPT !.init_runs = @ + 1] IN
    IF ~cfg.loaded
    THEN \* get_config() raises: lines 95-97
         Commit(t, [prods EXCEPT ![c.p] = run], kclient,
                [c EXCEPT !.raised = "MessagingError", !.raisedAt = "initialize",
                          !.errorLogs = @ + 1],
                "idle", message_producer, uuids, c.op = "get")
    ELSE
    LET pr1 == [run EXCEPT !.config = TRUE,
                           !.use_kafka = KAFKA_AVAILABLE /\ cfg.environment # "local"]
    IN
    IF pr1.use_kafka /\ cfg.kafka_bootstrap_servers
    THEN \* _init_kafka_producer, lines 105-118: suspends in start()
         \/ Commit(t, [prods EXCEPT ![c.p] = [pr1 EXCEPT !.kafka_producer = FreshClient]],
                   [kclient EXCEPT ![FreshClient] = "constructed"],
                   [c EXCEPT !.client = FreshClient],
                   "init_kstart", message_producer, uuids, FALSE)
         \* the AIOKafkaProducer constructor raises: lines 122-124
         \/ \E sqsOk \in BOOLEAN :
               AfterInitialize(t,
                   [prods EXCEPT ![c.p] =
                       InitializeTail([pr1 EXCEPT !.kafka_producer = None], sqsOk)],
                   kclient, c)
    ELSE \E sqsOk \in BOOLEAN :
            AfterInitialize(t, [prods EXCEPT ![c.p] = InitializeTail(pr1, sqsOk)],
                            kclient, c)

StartCall(op, p, topic, message) ==
    [NoCall EXCEPT !.op = op, !.p = p, !.topic = topic, !.message = message,
                   !.start = clock]

\* the producers a task can hold a reference to
Targets == {p \in {Own} : producers[p].constructed} \cup ({message_producer} \ {None})

\* tasks are anonymous coroutines: a new call runs in the lowest idle one
FreeSlot(t) ==
    /\ pc[t] = "idle"
    /\ \A u \in Tasks : u < t => pc[u] # "idle"

\* ------------------------------------------------------------- actions
\* config.init_config(service_name): from now on get_config() succeeds
init_config ==
    /\ ~cfg.loaded
    /\ cfg' \in Configs
    /\ UNCHANGED <<KAFKA_AVAILABLE, SQS_AVAILABLE, clock, uuids, producers, kclient,
                   message_producer, lockHolder, lockWaiters, pc, call, calls>>
    /\ UNCHANGED cvars

Tick ==
    /\ clock < MaxClock
    /\ clock' = clock + 1
    /\ UNCHANGED <<KAFKA_AVAILABLE, SQS_AVAILABLE, cfg, uuids, producers, kclient,
                   message_producer, lockHolder, lockWaiters, pc, call, calls>>
    /\ UNCHANGED cvars

\* get_message_producer, lines 454-459 and 466
get_message_producer(t) ==
    /\ FreeSlot(t)
    /\ calls < MaxCalls
    /\ calls' = calls + 1
    /\ UNCHANGED <<KAFKA_AVAILABLE, SQS_AVAILABLE, cfg, clock, uuids, producers,
                   kclient, message_producer>>
    /\ UNCHANGED cvars
    /\ IF message_producer # None
       THEN /\ call' = [call EXCEPT ![t] =
                   [StartCall("get", message_producer, "", NoEnvelope)
                       EXCEPT !.retp = message_producer, !.ret = "producer",
                              !.retInitialized =
                                  producers[message_producer].initialized]]
            /\ UNCHANGED <<pc, lockHolder, lockWaiters>>
       ELSE /\ call' = [call EXCEPT ![t] =
                   [StartCall("get", None, "", NoEnvelope)
                       EXCEPT !.waited = (lockHolder # None)]]
            /\ pc' = [pc EXCEPT ![t] = "gmp_lock"]
            /\ IF lockHolder = None
               THEN lockHolder' = t /\ lockWaiters' = lockWaiters
               ELSE lockHolder' = lockHolder /\ lockWaiters' = Append(lockWaiters, t)

\* mutant: no second check of _message_producer under the lock
gmp_locked_unchecked(t) ==
    /\ pc[t] = "gmp_lock"
    /\ lockHolder = t
    /\ calls' = calls
    /\ Initialize(t, [producers EXCEPT ![FreshProducer] = NewProducer],
                  [call[t] EXCEPT !.p = FreshProducer])

\* get_message_producer, lines 460-466, holding the lock
gmp_locked(t) ==
    /\ pc[t] = "gmp_lock"
    /\ lockHolder = t
    /\ calls' = calls
    /\ IF message_producer # None
       THEN Commit(t, producers, kclient,
                   [call[t] EXCEPT !.p = message_producer,
                                   !.retp = message_producer, !.ret = "producer",
                                   !.retInitialized =
                                       producers[message_producer].initialized],
                   "idle", message_producer, uuids, TRUE)
       ELSE Initialize(t, [producers EXCEPT ![FreshProducer] = NewProducer],
                       [call[t] EXCEPT !.p = FreshProducer])

\* _init_kafka_producer, lines 118-124, then initialize, lines 89-93
\* mutant: a failed start() aborts the initialization with MessagingError
init_kstart_strict(t) ==
    /\ pc[t] = "init_kstart"
    /\ calls' = calls
    /\ LET p == call[t].p
           k == call[t].client
       IN \E started \in BOOLEAN, sqsOk \in BOOLEAN :
            IF started
            THEN AfterInitialize(t,
                     [producers EXCEPT ![p] = InitializeTail(producers[p], sqsOk)],
                     [kclient EXCEPT ![k] = "started"], call[t])
            ELSE Commit(t, [producers EXCEPT ![p].kafka_producer = None],
                        [kclient EXCEPT ![k] = "failed"],
                        [call[t] EXCEPT !.raised = "MessagingError",
                                        !.raisedAt = "initialize"],
                        "idle", message_producer, uuids, call[t].op = "get")

\* _init_kafka_producer after start(), lines 118-124, then initialize 89-93
init_kstart(t) ==
    /\ pc[t] = "init_kstart"
    /\ calls' = calls
    /\ LET p == call[t].p
           k == call[t].client
       IN \E started \in BOOLEAN, sqsOk \in BOOLEAN :
            LET pr == IF started THEN producers[p]
                      ELSE [producers[p] EXCEPT !.kafka_producer = None]
                kc == [kclient EXCEPT ![k] = IF started THEN "started" ELSE "failed"]
            IN AfterInitialize(t, [producers EXCEPT ![p] = InitializeTail(pr, sqsOk)],
                               kc, call[t])

\* MessageProducer.send_message on a producer, lines 154-192
send_message(t) ==
    /\ FreeSlot(t)
    /\ calls < MaxCalls
    /\ calls' = calls + 1
    /\ \E p \in Targets, topic \in Topics, message \in Payloads :
          Initialize(t, producers, StartCall("send", p, topic, message))

\* mutant: no `return True` after a successful Kafka send
send_kafka_fallthrough(t) ==
    /\ pc[t] = "send_kafka"
    /\ calls' = calls
    /\ \E ok \in BOOLEAN :
          SqsFallback(t, producers, kclient,
                      [call[t] EXCEPT !.kafkaOk = ok, !.kafkaRaised = ~ok], uuids)

\* send_message, lines 187-203: send_and_wait returns or raises
send_kafka(t) ==
    /\ pc[t] = "send_kafka"
    /\ calls' = calls
    /\ \E ok \in BOOLEAN :
          IF ok
          THEN Commit(t, producers, kclient,
                      [call[t] EXCEPT !.kafkaOk = TRUE, !.ret = "true"],
                      "idle", message_producer, uuids, FALSE)
          ELSE SqsFallback(t, producers, kclient,
                           [call[t] EXCEPT !.kafkaRaised = TRUE], uuids)

\* MessageProducer.initialize called directly, lines 67-97
initialize(t) ==
    /\ FreeSlot(t)
    /\ calls < MaxCalls
    /\ calls' = calls + 1
    /\ \E p \in Targets :
          Initialize(t, producers, StartCall("init", p, "", NoEnvelope))

\* MessageProducer.close, lines 244-247
close(t) ==
    /\ FreeSlot(t)
    /\ calls < MaxCalls
    /\ calls' = calls + 1
    /\ \E p \in Targets :
       LET c == [StartCall("close", p, "", NoEnvelope)
                    EXCEPT !.closesSeen = producers[p].closes] IN
       IF producers[p].kafka_producer # None
       THEN Commit(t, producers, kclient,
                   [c EXCEPT !.client = producers[p].kafka_producer],
                   "close_stop", message_producer, uuids, FALSE)
       ELSE Commit(t, [producers EXCEPT ![p].initialized = FALSE, ![p].closes = @ + 1],
                   kclient,
                   [c EXCEPT !.ret = "returned"], "idle", message_producer, uuids, FALSE)

\* MessageProducer.close, lines 247-250: stop() has returned
close_stop(t) ==
    /\ pc[t] = "close_stop"
    /\ calls' = calls
    /\ LET p == call[t].p
           k == call[t].client
       IN Commit(t, [producers EXCEPT ![p].initialized = FALSE, ![p].closes = @ + 1],
                 [kclient EXCEPT ![k] = "stopped"],
                 [call[t] EXCEPT !.ret = "returned"], "idle", message_producer,
                 uuids, FALSE)

Next ==
    \/ init_config
    \/ \E t \in Tasks : get_message_producer(t)
    \/ \E t \in Tasks : gmp_locked(t)
    \/ \E t \in Tasks : init_kstart(t)
    \/ \E t \in Tasks : send_message(t)
    \/ \E t \in Tasks : send_kafka(t)
    \/ \E t \in Tasks : initialize(t)
    \/ \E t \in Tasks : close(t)
    \/ \E t \in Tasks : close_stop(t)

Spec == Init /\ [][Next]_vars

\* one MessageProducer used directly by concurrent tasks, without the registry
NextOwn ==
    \/ init_config
    \/ \E t \in Tasks : init_kstart(t)
    \/ \E t \in Tasks : send_message(t)
    \/ \E t \in Tasks : send_kafka(t)
    \/ \E t \in Tasks : initialize(t)
    \/ \E t \in Tasks : close(t)
    \/ \E t \in Tasks : close_stop(t)

ProducerSpec == InitOwn /\ [][NextOwn]_vars

\* the same producer with the wall clock advancing between the steps
NextTimed == NextOwn \/ Tick

TimedSpec == InitOwn /\ [][NextTimed]_vars

\* ------------------------------------------------------------- consumer
InitC ==
    /\ KAFKA_AVAILABLE \in BOOLEAN
    /\ SQS_AVAILABLE \in BOOLEAN
    /\ cfg = NoConfig
    /\ clock = 0
    /\ uuids = 0
    /\ producers = [p \in Producers |-> NoProducer]
    /\ kclient = [k \in KClients |-> "unused"]
    /\ message_producer = None
    /\ lockHolder = None
    /\ lockWaiters = <<>>
    /\ pc = [t \in Tasks |-> "idle"]
    /\ call = [t \in Tasks |-> NoCall]
    /\ calls = 0
    /\ InitConsumer

\* MessageConsumer._init_sqs_client, lines 313-339
CInitSqsClient(c, ok) == [c EXCEPT !.sqs_client = ok]

\* mutant: the consumer builds its queue client in every profile
CInitializeTail_any_profile(c, sqsOk) ==
    [(IF SQS_AVAILABLE THEN CInitSqsClient(c, sqsOk) ELSE c)
        EXCEPT !.initialized = TRUE]

\* MessageConsumer.initialize, lines 281-286
CInitializeTail(c, sqsOk) ==
    [(IF SQS_AVAILABLE /\ cfg.environment # "local" THEN CInitSqsClient(c, sqsOk) ELSE c)
        EXCEPT !.initialized = TRUE]

\* mutant: with no transport the call just returns
Dispatch_silent(c) ==
    /\ consumer' = [c EXCEPT !.running = TRUE]
    /\ IF c.kafka_consumer
       THEN cpc' = "kafka_next" /\ craisedAt' = ""
       ELSE IF c.sqs_client
       THEN IF ~cfg.sqs_queue_url
            THEN cpc' = "raised" /\ craisedAt' = "sqs_queue_url"
            ELSE cpc' = "sqs_loop" /\ craisedAt' = ""
       ELSE cpc' = "done" /\ craisedAt' = ""

\* mutant: the queue is preferred when both handles exist
Dispatch_sqs_first(c) ==
    /\ consumer' = [c EXCEPT !.running = TRUE]
    /\ IF c.sqs_client
       THEN IF ~cfg.sqs_queue_url
            THEN cpc' = "raised" /\ craisedAt' = "sqs_queue_url"
            ELSE cpc' = "sqs_loop" /\ craisedAt' = ""
       ELSE IF c.kafka_consumer
       THEN cpc' = "kafka_next" /\ craisedAt' = ""
       ELSE cpc' = "raised" /\ craisedAt' = "no_transport"

\* start_consuming, lines 351-363, with the entry of _consume_sqs, 399-400
Dispatch(c) ==
    /\ consumer' = [c EXCEPT !.running = TRUE]
    /\ IF c.kafka_consumer
       THEN cpc' = "kafka_next" /\ craisedAt' = ""
       ELSE IF c.sqs_client
       THEN IF ~cfg.sqs_queue_url
            THEN cpc' = "raised" /\ craisedAt' = "sqs_queue_url"
            ELSE cpc' = "sqs_loop" /\ craisedAt' = ""
       ELSE cpc' = "raised" /\ craisedAt' = "no_transport"

\* start_consuming, lines 341-349, and initialize, lines 265-279
start_consuming ==
    /\ cpc \in {"idle", "done", "raised"}
    /\ starts < MaxStarts
    /\ starts' = starts + 1
    /\ UNCHANGED <<pvars, asyncio_coroutine, stopStarts,
                   spc, stopAt, pulled, handled, queue, malformed,
                   batch, deletes>>
    /\ IF consumer.initialized
       THEN Dispatch(consumer) /\ kconsumer' = kconsumer
       ELSE IF ~cfg.loaded
       THEN \* get_config() raises: lines 288-290
            /\ cpc' = "raised" /\ craisedAt' = "initialize"
            /\ UNCHANGED <<consumer, kconsumer>>
       ELSE IF KAFKA_AVAILABLE /\ cfg.kafka_bootstrap_servers
       THEN \* _init_kafka_consumer, lines 295-305: suspends in start()
            /\ consumer' = [consumer EXCEPT !.config = TRUE, !.kafka_consumer = TRUE]
            /\ kconsumer' = "constructed"
            /\ cpc' = "init_kstart" /\ craisedAt' = ""
       ELSE /\ kconsumer' = kconsumer
            /\ \E sqsOk \in BOOLEAN :
                  Dispatch(CInitializeTail([consumer EXCEPT !.config = TRUE], sqsOk))

\* _init_kafka_consumer, lines 305-311, then initialize and start_consuming
c_init_kstart ==
    /\ cpc = "init_kstart"
    /\ UNCHANGED <<pvars, asyncio_coroutine, stopStarts,
                   starts, spc, stopAt, pulled, handled, queue, malformed, batch,
                   deletes>>
    /\ \E started \in BOOLEAN, sqsOk \in BOOLEAN :
          /\ kconsumer' = IF ~started THEN "failed"
                          ELSE IF kconsumer = "constructed" THEN "started"
                          ELSE kconsumer
          /\ Dispatch(CInitializeTail(
                         IF started THEN consumer
                         ELSE [consumer EXCEPT !.kafka_consumer = FALSE], sqsOk))

\* _consume_kafka, lines 368-374: the iterator returns a record, ends or raises
kafka_pull ==
    /\ cpc = "kafka_next"
    /\ UNCHANGED <<pvars, asyncio_coroutine, stopStarts,
                   consumer, kconsumer, starts, spc, stopAt, queue, malformed,
                   batch, deletes>>
    /\ \/ /\ kconsumer = "started"
          /\ pulled < MaxRecords
          /\ Len(handled) < MaxHandled
          /\ pulled' = pulled + 1
          /\ craisedAt' = craisedAt
          /\ IF ~consumer.running
             THEN cpc' = "done" /\ handled' = handled
             ELSE IF ~asyncio_coroutine
             THEN \* line 374: asyncio.coroutine is an AttributeError, caught
                  \* at 382-389 before the handler is called
                  cpc' = cpc /\ handled' = handled
             ELSE /\ cpc' = "kafka_handler"
                  /\ handled' = Append(handled,
                        [src |-> "kafka", id |-> pulled + 1, result |-> "running"])
       \/ \* the consumer was stopped: the iteration ends
          /\ kconsumer = "stopped"
          /\ cpc' = "done"
          /\ UNCHANGED <<pulled, handled, craisedAt>>
       \/ \* lines 391-394
          /\ cpc' = "raised" /\ craisedAt' = "kafka"
          /\ UNCHANGED <<pulled, handled>>

\* mutant: a handler exception leaves the loop (no inner try)
kafka_handler_done_fatal ==
    /\ cpc = "kafka_handler"
    /\ UNCHANGED <<pvars, asyncio_coroutine, stopStarts,
                   consumer, kconsumer, starts, spc, stopAt, pulled, queue,
                   malformed, batch, deletes>>
    /\ \E ok \in BOOLEAN :
          /\ handled' = [handled EXCEPT ![Len(handled)].result =
                            IF ok THEN "ok" ELSE "raised"]
          /\ cpc' = IF ok THEN "kafka_next" ELSE "raised"
          /\ craisedAt' = IF ok THEN craisedAt ELSE "kafka"

\* _consume_kafka, lines 374-389: the handler returns or raises
kafka_handler_done ==
    /\ cpc = "kafka_handler"
    /\ UNCHANGED <<pvars, asyncio_coroutine, stopStarts,
                   consumer, kconsumer, starts, spc, stopAt, pulled, queue,
                   malformed, batch, deletes, craisedAt>>
    /\ \E ok \in BOOLEAN :
          handled' = [handled EXCEPT ![Len(handled)].result =
                         IF ok THEN "ok" ELSE "raised"]
    /\ cpc' = "kafka_next"

\* the batches receive_message can return: sequences of distinct visible messages
Batches ==
    {<<>>} \cup {<<m>> : m \in {x \in Msgs : queue[x] = "visible"}}
           \cup {<<m, n>> : m, n \in {x \in Msgs : queue[x] = "visible"}}

\* mutant: a receive_message error is logged and the loop polls again
sqs_poll_retry ==
    /\ cpc = "sqs_loop"
    /\ UNCHANGED <<pvars, asyncio_coroutine, stopStarts,
                   consumer, kconsumer, starts, spc, stopAt, pulled, handled,
                   malformed, deletes>>
    /\ IF ~consumer.running
       THEN cpc' = "done" /\ UNCHANGED <<queue, batch, craisedAt>>
       ELSE \/ \E b \in Batches :
                 /\ \A i, j \in 1..Len(b) : i # j => b[i] # b[j]
                 /\ Len(handled) + Len(b) <= MaxHandled
                 /\ batch' = b
                 /\ queue' = [m \in Msgs |->
                                IF \E i \in 1..Len(b) : b[i] = m
                                THEN "inflight" ELSE queue[m]]
                 /\ cpc' = IF b = <<>> THEN "sqs_sleep" ELSE "sqs_batch"
                 /\ craisedAt' = craisedAt
            \/ /\ cpc' = "sqs_sleep" /\ craisedAt' = "sqs"
               /\ UNCHANGED <<queue, batch>>

\* mutant: `while True`, the running flag is not read at the loop head
sqs_poll_unchecked ==
    /\ cpc = "sqs_loop"
    /\ UNCHANGED <<pvars, asyncio_coroutine, stopStarts,
                   consumer, kconsumer, starts, spc, stopAt, pulled, handled,
                   malformed, deletes>>
    /\ IF FALSE
       THEN cpc' = "done" /\ UNCHANGED <<queue, batch, craisedAt>>
       ELSE \/ \E b \in Batches :
                 /\ \A i, j \in 1..Len(b) : i # j => b[i] # b[j]
                 /\ Len(handled) + Len(b) <= MaxHandled
                 /\ batch' = b
                 /\ queue' = [m \in Msgs |->
                                IF \E i \in 1..Len(b) : b[i] = m
                                THEN "inflight" ELSE queue[m]]
                 /\ cpc' = IF b = <<>> THEN "sqs_sleep" ELSE "sqs_batch"
                 /\ craisedAt' = craisedAt
            \/ /\ cpc' = "raised" /\ craisedAt' = "sqs"
               /\ UNCHANGED <<queue, batch>>

\* _consume_sqs, lines 403-415 and 437-439
sqs_poll ==
    /\ cpc = "sqs_loop"
    /\ UNCHANGED <<pvars, asyncio_coroutine, stopStarts,
                   consumer, kconsumer, starts, spc, stopAt, pulled, handled,
                   malformed, deletes>>
    /\ IF ~consumer.running
       THEN cpc' = "done" /\ UNCHANGED <<queue, batch, craisedAt>>
       ELSE \/ \E b \in Batches :
                 /\ \A i, j \in 1..Len(b) : i # j => b[i] # b[j]
                 /\ Len(handled) + Len(b) <= MaxHandled
                 /\ batch' = b
                 /\ queue' = [m \in Msgs |->
                                IF \E i \in 1..Len(b) : b[i] = m
                                THEN "inflight" ELSE queue[m]]
                 /\ cpc' = IF b = <<>> THEN "sqs_sleep" ELSE "sqs_batch"
                 /\ craisedAt' = craisedAt
            \/ /\ cpc' = "raised" /\ craisedAt' = "sqs"
               /\ UNCHANGED <<queue, batch>>

\* _consume_sqs, line 414: asyncio.sleep(1) is over
sqs_sleep ==
    /\ cpc = "sqs_sleep"
    /\ cpc' = "sqs_loop"
    /\ UNCHANGED <<pvars, asyncio_coroutine, stopStarts,
                   consumer, kconsumer, craisedAt, starts, spc, stopAt, pulled,
                   handled, queue, malformed, batch, deletes>>

\* mutant: a message whose body cannot be parsed is removed from the queue
sqs_next_drop_unparsed ==
    /\ cpc = "sqs_batch"
    /\ UNCHANGED <<pvars, asyncio_coroutine, stopStarts,
                   consumer, kconsumer, craisedAt, starts, spc,
                   stopAt, pulled, malformed>>
    /\ IF batch = <<>>
       THEN cpc' = "sqs_loop" /\ UNCHANGED <<batch, handled, queue, deletes>>
       ELSE IF ~consumer.running
       THEN cpc' = "sqs_loop" /\ batch' = <<>> /\ UNCHANGED <<handled, queue, deletes>>
       ELSE IF Head(batch) \in malformed \/ ~asyncio_coroutine
       THEN /\ cpc' = cpc /\ batch' = Tail(batch) /\ handled' = handled
            /\ deletes' = [deletes EXCEPT ![Head(batch)] = @ + 1]
            /\ queue' = [queue EXCEPT ![Head(batch)] = "deleted"]
       ELSE /\ cpc' = "sqs_handler"
            /\ batch' = batch
            /\ handled' = Append(handled,
                  [src |-> "sqs", id |-> Head(batch), result |-> "running"])
            /\ UNCHANGED <<queue, deletes>>

\* _consume_sqs, lines 417-423: the next message of the batch
sqs_next ==
    /\ cpc = "sqs_batch"
    /\ UNCHANGED <<pvars, asyncio_coroutine, stopStarts,
                   consumer, kconsumer, craisedAt, starts, spc, stopAt, pulled,
                   queue, malformed, deletes>>
    /\ IF batch = <<>>
       THEN cpc' = "sqs_loop" /\ UNCHANGED <<batch, handled>>
       ELSE IF ~consumer.running
       THEN cpc' = "sqs_loop" /\ batch' = <<>> /\ handled' = handled
       ELSE IF Head(batch) \in malformed \/ ~asyncio_coroutine
       THEN \* json.loads (421) or the lookup of asyncio.coroutine (423)
            \* raises: lines 434-435, no handler call, no delete_message
            cpc' = cpc /\ batch' = Tail(batch) /\ handled' = handled
       ELSE /\ cpc' = "sqs_handler"
            /\ batch' = batch
            /\ handled' = Append(handled,
                  [src |-> "sqs", id |-> Head(batch), result |-> "running"])

\* mutant: the message is deleted whether or not the handler raised
sqs_handler_done_always_delete ==
    /\ cpc = "sqs_handler"
    /\ UNCHANGED <<pvars, asyncio_coroutine, stopStarts,
                   consumer, kconsumer, craisedAt, starts, spc, stopAt, pulled,
                   malformed>>
    /\ LET m == Head(batch) IN
       \E ok \in BOOLEAN, deleted \in BOOLEAN :
          /\ handled' = [handled EXCEPT ![Len(handled)].result =
                            IF ok THEN "ok" ELSE "raised"]
          /\ deletes' = [deletes EXCEPT ![m] = @ + 1]
          /\ queue' = [queue EXCEPT ![m] = IF deleted THEN "deleted" ELSE @]
    /\ batch' = Tail(batch)
    /\ cpc' = "sqs_batch"

\* _consume_sqs, lines 423-435: the handler returns or raises, delete_message
sqs_handler_done ==
    /\ cpc = "sqs_handler"
    /\ UNCHANGED <<pvars, asyncio_coroutine, stopStarts,
                   consumer, kconsumer, craisedAt, starts, spc, stopAt, pulled,
                   malformed>>
    /\ LET m == Head(batch) IN
       \E ok \in BOOLEAN, deleted \in BOOLEAN :
          /\ handled' = [handled EXCEPT ![Len(handled)].result =
                            IF ok THEN "ok" ELSE "raised"]
          /\ deletes' = [deletes EXCEPT ![m] = IF ok THEN @ + 1 ELSE @]
          /\ queue' = [queue EXCEPT ![m] = IF ok /\ deleted THEN "deleted" ELSE @]
    /\ batch' = Tail(batch)
    /\ cpc' = "sqs_batch"

\* the queue's visibility timeout of a received message expires
visibility_timeout ==
    /\ \E m \in Msgs :
          /\ queue[m] = "inflight"
          /\ queue' = [queue EXCEPT ![m] = "visible"]
    /\ UNCHANGED <<pvars, asyncio_coroutine, stopStarts,
                   consumer, kconsumer, cpc, craisedAt, starts, spc, stopAt,
                   pulled, handled, malformed, batch, deletes>>

\* another coroutine runs only while start_consuming is suspended in an await
\* (or is not running): receive_message, json.loads and delete_message block
ConsumerSuspended ==
    cpc \in {"idle", "done", "raised", "init_kstart", "kafka_next", "kafka_handler",
             "sqs_sleep", "sqs_handler"}

\* MessageConsumer.stop, lines 441-446
stop ==
    /\ spc = "idle"
    /\ ConsumerSuspended
    /\ consumer' = [consumer EXCEPT !.running = FALSE]
    /\ stopAt' = cpc
    /\ spc' = IF consumer.kafka_consumer THEN "stop_wait" ELSE "done"
    /\ stopStarts' = starts
    /\ UNCHANGED <<pvars, asyncio_coroutine, kconsumer, cpc, craisedAt, starts, pulled, handled, queue,
                   malformed, batch, deletes>>

\* MessageConsumer.stop, lines 446-447: kafka_consumer.stop() has returned
stop_done ==
    /\ spc = "stop_wait"
    /\ ConsumerSuspended
    /\ spc' = "done"
    /\ stopStarts' = starts
    /\ kconsumer' = IF kconsumer = "failed" THEN kconsumer ELSE "stopped"
    /\ UNCHANGED <<pvars, asyncio_coroutine, consumer, cpc, craisedAt, starts, stopAt, pulled, handled,
                   queue, malformed, batch, deletes>>

NextC ==
    \/ init_config
    \/ start_consuming
    \/ c_init_kstart
    \/ kafka_pull
    \/ kafka_handler_done
    \/ sqs_poll
    \/ sqs_sleep
    \/ sqs_next
    \/ sqs_handler_done
    \/ visibility_timeout
    \/ stop
    \/ stop_done

ConsumerSpec == InitC /\ [][NextC]_vars

\* the event loop resumes a coroutine whose awaited call has completed, and
\* the blocking calls of the loops (the Kafka iterator, receive_message,
\* asyncio.sleep, the handler, delete_message, kafka_consumer.stop) complete
ConsumerFairness ==
    /\ WF_vars(kafka_pull \/ kafka_handler_done
                \/ sqs_poll \/ sqs_sleep \/ sqs_next \/ sqs_handler_done)
    /\ WF_vars(stop_done)

LiveConsumerSpec == InitC /\ [][NextC]_vars /\ ConsumerFairness

\* one process holding its own MessageProducer and a MessageConsumer
InitPair ==
    /\ KAFKA_AVAILABLE \in BOOLEAN
    /\ SQS_AVAILABLE \in BOOLEAN
    /\ cfg = NoConfig
    /\ clock = 0
    /\ uuids = 0
    /\ producers = [p \in Producers |-> IF p = Own THEN NewProducer ELSE NoProducer]
    /\ kclient = [k \in KClients |-> "unused"]
    /\ message_producer = None
    /\ lockHolder = None
    /\ lockWaiters = <<>>
    /\ pc = [t \in Tasks |-> "idle"]
    /\ call = [t \in Tasks |-> NoCall]
    /\ calls = 0
    /\ InitConsumer

\* the send path of the producer and the loops of the consumer interleave;
\* they share only the configuration and the module flags
NextPair ==
    \/ init_config
    \/ \E t \in Tasks : init_kstart(t)
    \/ \E t \in Tasks : send_message(t) /\ calls' <= MaxPairCalls
    \/ \E t \in Tasks : send_kafka(t)
    \/ \E t \in Tasks : initialize(t) /\ calls' <= MaxPairCalls
    \/ start_consuming /\ starts' <= MaxPairStarts
    \/ c_init_kstart
    \/ kafka_pull /\ Len(handled') <= MaxPairHandled
    \/ kafka_handler_done
    \/ sqs_poll /\ Len(handled) + Len(batch') <= MaxPairHandled
    \/ sqs_sleep
    \/ sqs_next
    \/ sqs_handler_done

PairSpec == InitPair /\ [][NextPair]_vars

\* ------------------------------------------------------------- claims
SendCalls == {t \in Tasks : call[t].op = "send"}
GetReturns == {t \in Tasks : call[t].op = "get" /\ call[t].ret = "producer"}

\* C1: when the Kafka send of a send_message call completes without error,
\* the call returns true and makes no SQS send; a call makes an SQS send only
\* if it had no Kafka handle or its Kafka send raised.
C1_KafkaSuccessSkipsQueue ==
    \A t \in SendCalls :
        /\ call[t].kafkaOk => call[t].ret = "true" /\ call[t].sqsSends = 0
        /\ call[t].sqsSends > 0 => call[t].kafkaSends = 0 \/ call[t].kafkaRaised

C1_Witness ==
    \E t \in SendCalls : call[t].kafkaOk /\ call[t].ret = "true"

\* C2: when the Kafka send raised, the topic has a queue URL and the producer
\* has an SQS client, the call makes exactly one SQS send, whose body is the
\* JSON of the payload enriched with timestamp, message_id and
\* producer_service, and it returns true if that send succeeds.
C2_FallbackSendsEnvelope ==
    \A t \in SendCalls :
        (call[t].kafkaRaised /\ sqs_queue_urls[call[t].topic] # "" /\ call[t].sqsHandle)
        => /\ call[t].sqsSends = 1
           /\ \E ts \in 0..MaxClock, id \in 1..uuids :
                 call[t].sqsBody = JsonDumps(Enrich(call[t].message, ts, id))
           /\ call[t].sqsOk => call[t].ret = "true"

C2_Witness ==
    \E t \in SendCalls :
        /\ call[t].kafkaRaised /\ call[t].sqsSends = 1 /\ call[t].sqsOk
        /\ call[t].ret = "true"
        /\ "at" \in DOMAIN call[t].message

\* C3 as stated: a finished send_message call in which no transport accepted
\* the message returned false and raised nothing, whatever state the producer
\* was in.
C3_Original ==
    \A t \in SendCalls :
        (pc[t] = "idle" /\ ~call[t].kafkaOk /\ ~call[t].sqsOk)
        => call[t].ret = "false" /\ call[t].raised = "none"

\* C3 amended: a send_message call raises only MessagingError, and only out
\* of its lazy initialize() when the configuration read fails, before any
\* envelope is built or transport contacted; every other finished call in
\* which no transport accepted the message returned false.
C3_FalseUnlessInitFails ==
    \A t \in SendCalls :
        /\ call[t].raised # "none"
           => /\ call[t].raised = "MessagingError"
              /\ call[t].raisedAt = "initialize"
              /\ call[t].envelope = NoEnvelope
              /\ call[t].kafkaSends = 0 /\ call[t].sqsSends = 0
              /\ call[t].ret = "none"
        /\ (pc[t] = "idle" /\ call[t].raised = "none"
              /\ ~call[t].kafkaOk /\ ~call[t].sqsOk)
           => call[t].ret = "false"

C3_Witness ==
    \E t \in SendCalls :
        /\ call[t].kafkaRaised /\ call[t].sqsSends = 1 /\ ~call[t].sqsOk
        /\ call[t].ret = "false" /\ call[t].raised = "none"

RegistryProducers == {p \in Producers \ {Own} : producers[p].constructed}
NoClose == \A p \in Producers : producers[p].closes = 0
ClosePending == \E t \in Tasks : call[t].op = "close" /\ pc[t] # "idle"

RECURSIVE SumRuns(_)
SumRuns(ps) ==
    IF ps = {} THEN 0
    ELSE LET p == CHOOSE q \in ps : TRUE
         IN producers[p].init_runs + SumRuns(ps \ {p})

\* C4 as stated: the callers of get_message_producer all receive the same
\* instance and initialize ran exactly once.
C4_Original ==
    (GetReturns # {} /\ NoClose)
    => /\ \A t, u \in GetReturns : call[t].retp = call[u].retp
       /\ SumRuns(RegistryProducers) = 1

\* C4 amended: the callers of get_message_producer that return all receive
\* the same instance, the published one, on which initialize ran exactly
\* once; an initialize that raised MessagingError (the configuration read
\* failed) published nothing and left its instance uninitialized, and a later
\* caller initialized a fresh instance.
C4_SameInstanceOneSuccessfulInit ==
    NoClose
    => /\ \A t \in GetReturns :
             /\ call[t].retp = message_producer
             /\ producers[call[t].retp].init_runs = 1
       /\ \A p \in RegistryProducers \ {message_producer} :
             /\ producers[p].init_runs <= 1
             /\ ~producers[p].initialized
             /\ (producers[p].init_runs = 1 /\ ~producers[p].config)
                \/ \E t \in Tasks : call[t].op = "get" /\ call[t].p = p /\ pc[t] # "idle"

C4_Witness ==
    \E t, u \in GetReturns :
        /\ t # u /\ call[u].waited /\ ~call[t].waited
        /\ call[t].retp = call[u].retp
        /\ producers[call[t].retp].kafka_producer # None
        /\ NoClose

\* C5: initialize ran past its already-initialized check at most once on the
\* published shared producer.
C5_AtMostOneInitialize ==
    message_producer # None => producers[message_producer].init_runs <= 1

\* C6: a producer returned by get_message_producer has its initialized flag
\* set at the moment of the return.
C6_ReturnedInitialized ==
    \A t \in GetReturns : call[t].retInitialized

\* C7: once a stop() issued during the only start_consuming call has
\* returned, the handler is not invoked again.
C7_NoHandlerAfterStop ==
    [][(spc = "done" /\ stopAt \notin {"idle", "done", "raised"} /\ starts' = 1)
          => Len(handled') = Len(handled)]_vars

\* C8: in the Kafka loop a handler exception for record N neither ends the
\* loop nor raises out of it, and the record N+1 the iterator returns while
\* the consumer is still running is passed to the handler.
C8_HandlerErrorContinues ==
    [][/\ (cpc = "kafka_handler" /\ handled'[Len(handled)].result = "raised")
             => cpc' = "kafka_next" /\ craisedAt' = craisedAt
       /\ (cpc = "kafka_next" /\ pulled' = pulled + 1 /\ consumer.running
              /\ Len(handled) > 0
              /\ handled[Len(handled)] =
                    [src |-> "kafka", id |-> pulled, result |-> "raised"])
             => /\ cpc' = "kafka_handler"
                /\ handled' = Append(handled,
                      [src |-> "kafka", id |-> pulled', result |-> "running"])]_vars

C8_Witness ==
    \E i \in 1..Len(handled) :
        /\ handled[i] = [src |-> "kafka", id |-> 1, result |-> "raised"]
        /\ i < Len(handled)
        /\ handled[i + 1].src = "kafka" /\ handled[i + 1].id = 2

\* C9: an initialized consumer without Kafka consumer and without SQS client
\* has raised MessagingError from start_consuming for want of a transport,
\* without pulling, polling or invoking the handler.
C9_NoTransportRaises ==
    (consumer.initialized /\ ~consumer.kafka_consumer /\ ~consumer.sqs_client)
    => /\ cpc = "raised" /\ craisedAt = "no_transport"
       /\ handled = <<>> /\ pulled = 0 /\ batch = <<>>
       /\ \A m \in Msgs : queue[m] = "visible" /\ deletes[m] = 0

C9_Witness ==
    /\ consumer.initialized /\ ~consumer.kafka_consumer /\ ~consumer.sqs_client
    /\ cpc = "raised" /\ starts = 1

\* C10: in the SQS loop a handler exception makes no delete_message call and
\* leaves the loop running without raising; a message is deleted only after
\* a handler call for it returned; and a message whose handler raised, once
\* it is received again and reached while the consumer is running, is passed
\* to the handler again.
C10_FailedMessageRedelivered ==
    /\ [][/\ (cpc = "sqs_handler" /\ handled'[Len(handled)].result = "raised")
                => /\ deletes' = deletes /\ queue' = queue
                   /\ cpc' = "sqs_batch" /\ craisedAt' = craisedAt
          /\ (cpc = "sqs_batch" /\ batch # <<>> /\ consumer.running
                 /\ \E i \in 1..Len(handled) :
                       handled[i] = [src |-> "sqs", id |-> Head(batch),
                                     result |-> "raised"])
                => \/ cpc' = cpc /\ batch' = batch
                   \/ /\ cpc' = "sqs_handler"
                      /\ handled' = Append(handled,
                            [src |-> "sqs", id |-> Head(batch), result |-> "running"])]_vars
    /\ [](\A m \in Msgs :
             (queue[m] = "deleted" \/ deletes[m] > 0)
             => \E i \in 1..Len(handled) :
                   handled[i] = [src |-> "sqs", id |-> m, result |-> "ok"])

C10_Witness ==
    \E i, j \in 1..Len(handled) :
        /\ i < j
        /\ handled[i].src = "sqs" /\ handled[i].result = "raised"
        /\ handled[j].src = "sqs" /\ handled[j].id = handled[i].id
        /\ deletes[handled[i].id] = 0

\* the deliveries of message m whose handler call returned without error
OkDeliveries(m) ==
    {i \in 1..Len(handled) : handled[i] = [src |-> "sqs", id |-> m, result |-> "ok"]}

\* C11: at every moment the number of delete_message calls made for a message
\* equals the number of its deliveries whose handler returned without error
\* (one call per such delivery, made as the handler returns, and none for a
\* delivery skipped by stop(), a parse failure or a handler failure), and a
\* message gone from the queue had such a delivery.
C11_DeleteOnlyAfterSuccess ==
    \A m \in Msgs :
        /\ deletes[m] = Cardinality(OkDeliveries(m))
        /\ queue[m] = "deleted" => OkDeliveries(m) # {}

C11_Witness ==
    \E m, n \in Msgs :
        /\ m # n
        /\ deletes[m] = 1 /\ queue[m] = "deleted"
        /\ ~consumer.running /\ batch = <<>>
        /\ n \notin malformed /\ queue[n] = "inflight" /\ deletes[n] = 0
        /\ \A i \in 1..Len(handled) : handled[i].id # n

\* the send_message calls that have built their envelope
Enveloped == {t \in SendCalls : call[t].envelope # NoEnvelope}

\* C12: the envelope of a send_message call, and what the call hands to Kafka
\* and to SQS, carries a message_id drawn for that call alone (larger than
\* every id drawn before it, different from that of every other call) and a
\* timestamp not earlier than the start of the call.
C12_FreshIdLateTimestamp ==
    /\ [](\A t \in Enveloped :
             /\ call[t].envelope["message_id"][1] = "uuid"
             /\ call[t].envelope["message_id"][2] \in 1..uuids
             /\ call[t].envelope["timestamp"][1] = "iso"
             /\ call[t].envelope["timestamp"][2] >= call[t].start
             /\ call[t].kafkaSends > 0 => call[t].kafkaValue = call[t].envelope
             /\ call[t].sqsSends > 0 =>
                   /\ call[t].sqsBody["message_id"] = call[t].envelope["message_id"]
                   /\ call[t].sqsBody["timestamp"] = call[t].envelope["timestamp"]
             /\ \A u \in Enveloped \ {t} :
                   call[u].envelope["message_id"] # call[t].envelope["message_id"])
    /\ [][\A t \in Tasks :
             (call'[t].envelope # NoEnvelope /\ call'[t].envelope # call[t].envelope)
             => /\ call'[t].envelope["message_id"][2] > uuids
                /\ uuids' = call'[t].envelope["message_id"][2]]_vars

C12_Witness ==
    \E t, u \in Enveloped :
        /\ t # u
        /\ pc[t] = "send_kafka" /\ pc[u] = "send_kafka"
        /\ call[t].envelope["timestamp"][2] > call[t].start
        /\ call[u].envelope["timestamp"][2] = call[u].start

\* C13: every key of the caller's payload is in the envelope of the call, with
\* the value the caller supplied.
C13_PayloadKept ==
    \A t \in Enveloped :
        \A k \in DOMAIN call[t].message :
            /\ k \in DOMAIN call[t].envelope
            /\ call[t].envelope[k] = call[t].message[k]

\* C14: a send_message call that got past initialize(), found no Kafka
\* producer and whose topic has no queue URL has returned false without
\* raising, made no SQS send and logged exactly one error.
C14_NoRouteReturnsFalse ==
    \A t \in Enveloped :
        (pc[t] = "idle" /\ call[t].kafkaSends = 0 /\ sqs_queue_urls[call[t].topic] = "")
        => /\ call[t].ret = "false" /\ call[t].raised = "none"
           /\ call[t].sqsSends = 0
           /\ call[t].errorLogs = 1

C14_Witness ==
    \E t \in Enveloped :
        /\ pc[t] = "idle" /\ call[t].kafkaSends = 0
        /\ sqs_queue_urls[call[t].topic] = ""
        /\ call[t].sqsHandle /\ call[t].ret = "false"

\* C15: once a close() has completed on a producer that initialize() had
\* configured, no step sets its initialized flag again and no step gives it
\* a new Kafka client.
C15_ClosedIsFinal ==
    [][\A p \in Producers :
          (producers[p].closes > 0 /\ producers[p].config)
          => /\ producers'[p].initialized => producers[p].initialized
             /\ producers'[p].kafka_producer \in {producers[p].kafka_producer, None}]_vars

\* C16: once a stop() called on a consumer in its consumption loop has
\* returned, in a later start_consuming call no record is pulled from Kafka,
\* no receive_message call is made and the handler is not invoked.
C16_StoppedNotRestarted ==
    [][(/\ spc = "done"
        /\ stopAt \in {"kafka_next", "kafka_handler", "sqs_sleep", "sqs_handler"}
        /\ starts > stopStarts)
          => /\ Len(handled') = Len(handled)
             /\ pulled' = pulled
             /\ cpc = "sqs_loop" => cpc' \in {"sqs_loop", "done"}]_vars

\* C17: when the Kafka iteration or receive_message has raised, start_consuming
\* has raised MessagingError and its loop is over; in that call no further
\* record is pulled, no further receive_message call is made and the handler
\* is not invoked again.
C17_TransportErrorFatal ==
    /\ [](craisedAt \in {"kafka", "sqs"} => cpc = "raised")
    /\ [][(cpc = "raised" /\ starts' = starts)
            => /\ cpc' = "raised" /\ craisedAt' = craisedAt
               /\ pulled' = pulled /\ handled' = handled /\ batch' = batch
               /\ deletes' = deletes
               /\ \A m \in Msgs : queue'[m] = "inflight" => queue[m] = "inflight"]_vars

C17_Witness ==
    /\ cpc = "raised" /\ craisedAt = "sqs"
    /\ handled # <<>>
    /\ \E m \in Msgs : queue[m] = "visible"
    /\ consumer.running

SqsLoop == {"sqs_loop", "sqs_sleep", "sqs_batch", "sqs_handler"}
KafkaLoop == {"kafka_next", "kafka_handler"}

\* C18: a consumer initialized with a Kafka consumer never runs the SQS loop,
\* whether or not it also has an SQS client and whatever its Kafka loop did
\* (ended, raised): nothing is received from the queue, nothing is deleted and
\* every handler call is for a Kafka record; the SQS loop runs only on a
\* consumer without Kafka consumer, the Kafka loop only on one with it.
C18_ExclusiveBackend ==
    /\ (consumer.initialized /\ consumer.kafka_consumer)
       => /\ cpc \notin SqsLoop
          /\ craisedAt \notin {"sqs", "sqs_queue_url", "no_transport"}
          /\ batch = <<>>
          /\ \A m \in Msgs : queue[m] = "visible" /\ deletes[m] = 0
          /\ \A i \in 1..Len(handled) : handled[i].src = "kafka"
    /\ cpc \in SqsLoop => ~consumer.kafka_consumer /\ consumer.sqs_client
    /\ cpc \in KafkaLoop => consumer.kafka_consumer

C18_Witness ==
    /\ consumer.initialized /\ consumer.kafka_consumer /\ consumer.sqs_client
    /\ cfg.sqs_queue_url
    /\ cpc = "raised" /\ craisedAt = "kafka"
    /\ handled # <<>>

\* C19: an initialize() call made on a producer whose initialized flag is set
\* returns at once without raising or logging an error, leaves every field
\* of every producer as it was (the configuration is not read again, no
\* client is constructed) and touches no Kafka client.
C19_InitializeIdempotent ==
    [][\A t \in Tasks :
          (/\ FreeSlot(t) /\ calls' = calls + 1
           /\ call'[t].op = "init"
           /\ producers[call'[t].p].initialized)
          => /\ producers' = producers
             /\ kclient' = kclient
             /\ pc'[t] = "idle"
             /\ call'[t].ret = "returned" /\ call'[t].raised = "none"
             /\ call'[t].errorLogs = 0]_vars

C19_Witness ==
    \E t, u \in Tasks :
        /\ call[t].op = "init" /\ pc[t] = "idle" /\ call[t].ret = "returned"
        /\ pc[u] = "send_kafka" /\ call[u].p = call[t].p
        /\ producers[call[t].p].init_runs = 1
        /\ producers[call[t].p].closes = 0
        /\ producers[call[t].p].initialized

\* C20: a call whose initialize() fails on the configuration read raises
\* MessagingError and leaves the producer with its initialized flag unset and
\* without Kafka producer or SQS client; an initialize() call made on an
\* uninitialized producer once the configuration can be read runs the
\* initialization again and either sets the flag or is suspended in the
\* Kafka client's start(), after which it sets the flag, without raising.
C20_ConfigFailureRetryable ==
    [][\A t \in Tasks :
          LET p == call'[t].p IN
          /\ (call'[t].raisedAt = "initialize" /\ call'[t] # call[t])
             => /\ call'[t].raised = "MessagingError" /\ pc'[t] = "idle"
                /\ ~producers'[p].initialized
                /\ producers'[p].kafka_producer = None
                /\ ~producers'[p].sqs_client
                /\ ~cfg.loaded
          /\ (/\ FreeSlot(t) /\ calls' = calls + 1 /\ call'[t].op = "init"
              /\ cfg.loaded /\ ~producers[p].initialized)
             => /\ producers'[p].init_runs = producers[p].init_runs + 1
                /\ call'[t].raised = "none"
                /\ \/ producers'[p].initialized /\ call'[t].ret = "returned"
                   \/ pc'[t] = "init_kstart"
          /\ (pc[t] = "init_kstart" /\ pc'[t] # "init_kstart")
             => producers'[p].initialized /\ call'[t].raised = "none"]_vars

C20_Witness ==
    /\ producers[Own].init_runs = 2 /\ producers[Own].closes = 0
    /\ producers[Own].initialized
    /\ \A k \in KClients : kclient[k] = "unused"
    /\ \E t \in Tasks : call[t].op = "init" /\ call[t].ret = "returned"

\* ---------------------------------------------------------------- C21
\* the step that ends the wait in start() of call t
KStartReturns(t) == pc[t] = "init_kstart" /\ pc'[t] # "init_kstart"

\* C21: producer initialization degrades instead of failing. When start()
\* of the streaming client fails, the streaming handle is absent, the queue
\* client is still attempted (when boto3 is importable), and initialize()
\* completes with the producer initialized and nothing raised; and whenever
\* the queue client is attempted, whatever its outcome and the outcome of
\* the streaming client, the producer ends initialized.
C21_InitDegrades ==
    [][ /\ \A t \in Tasks :
             KStartReturns(t) =>
               LET p == call[t].p IN
               /\ producers'[p].initialized
               /\ call'[t].raised = "none"
               /\ (kclient'[call[t].client] = "failed"
                      => producers'[p].kafka_producer = None)
               /\ (SQS_AVAILABLE
                      => producers'[p].sqs_attempts = producers[p].sqs_attempts + 1)
        /\ \A p \in Producers :
             producers'[p].sqs_attempts > producers[p].sqs_attempts
               => producers'[p].initialized ]_vars

\* a producer is initialized although its streaming client failed to start
\* and its queue client could not be constructed either
C21_Witness ==
    /\ producers[Own].initialized
    /\ producers[Own].kafka_producer = None
    /\ \E k \in KClients : kclient[k] = "failed"
    /\ producers[Own].sqs_attempts = 1
    /\ ~producers[Own].sqs_client
    /\ \A t \in Tasks : call[t].raised = "none"

\* ---------------------------------------------------------------- C22
\* the condition of lines 80-85 under which a streaming client is built
KafkaWanted ==
    /\ KAFKA_AVAILABLE
    /\ cfg.loaded
    /\ cfg.environment # "local"
    /\ cfg.kafka_bootstrap_servers

\* C22: a streaming client is constructed only when aiokafka is importable,
\* the profile is not local and a broker address is configured; the queue
\* client is attempted in every profile whenever boto3 is importable (and
\* never otherwise); so in the local profile no producer holds a streaming
\* handle.
C22_BackendSelection ==
    /\ (\E k \in KClients : kclient[k] # "unused") => KafkaWanted
    /\ \A p \in Producers :
         /\ producers[p].kafka_producer # None => KafkaWanted
         /\ producers[p].use_kafka => KAFKA_AVAILABLE /\ cfg.environment # "local"
         /\ (producers[p].initialized /\ SQS_AVAILABLE
                => producers[p].sqs_attempts >= 1)
         /\ (~SQS_AVAILABLE => producers[p].sqs_attempts = 0)

\* local profile with aiokafka importable and a broker configured: the
\* producer initialized, attempted the queue client and has no streaming
\* handle
C22_Witness ==
    /\ cfg.loaded /\ cfg.environment = "local" /\ cfg.kafka_bootstrap_servers
    /\ KAFKA_AVAILABLE
    /\ producers[Own].initialized
    /\ producers[Own].sqs_attempts >= 1
    /\ producers[Own].kafka_producer = None
    /\ \A k \in KClients : kclient[k] = "unused"

\* ---------------------------------------------------------------- C23
\* C23: close() is idempotent: a close() on a producer that was already
\* closed issues no second stop() to the streaming client, so no close()
\* is ever waiting in stop() of a client that a previous close() stopped.
C23_NoSecondStop ==
    \A t \in Tasks :
        (/\ pc[t] = "close_stop"
         /\ call[t].closesSeen >= 1
         /\ ~producers[call[t].p].initialized
         /\ \A u \in Tasks \ {t} : pc[u] = "idle")
        => kclient[call[t].client] # "stopped"

\* ---------------------------------------------------------------- C24
\* stop() has cleared the running flag while a consumption loop is executing
StopRequested(states) == ~consumer.running /\ cpc \in states

\* start_consuming left through the except of _consume_kafka, lines 391-394
KafkaTransportError == cpc = "raised" /\ craisedAt = "kafka"

\* C24: stop() is cooperative. Once stop() has cleared the running flag of
\* a consumer whose loop is executing, and the blocking calls in flight
\* complete, start_consuming eventually returns normally: always on the
\* queue loop, and on the streaming loop unless the iterator itself fails
\* with a transport error. A handler invocation in flight when stop() is
\* called is not cancelled: it runs to its end and its outcome is recorded.
C24_StopIsCooperative ==
    /\ StopRequested({"sqs_loop", "sqs_sleep", "sqs_batch", "sqs_handler",
                      "kafka_next", "kafka_handler"})
          ~> (cpc = "done" \/ KafkaTransportError)
    /\ [][ /\ (StopRequested({"sqs_loop", "sqs_sleep", "sqs_batch", "sqs_handler"})
                => cpc' # "raised")
           /\ (cpc \in {"kafka_handler", "sqs_handler"} /\ cpc' # cpc
                => /\ Len(handled') = Len(handled)
                   /\ handled'[Len(handled)].result \in {"ok", "raised"}) ]_vars

\* stop() was called while the handler was running on a queue message; the
\* handler finished normally and start_consuming returned
C24_Witness ==
    /\ stopAt = "sqs_handler"
    /\ spc = "done"
    /\ starts = 1
    /\ ~consumer.running
    /\ cpc = "done"
    /\ handled # <<>> /\ handled[Len(handled)].result = "ok"

\* ---------------------------------------------------------------- C25
\* C25: one send_message call makes at most one send attempt on the
\* streaming client and at most one on the queue client, and when it makes
\* both, the queue body is the serialization of the very envelope handed to
\* the streaming client: same message_id, timestamp, producer_service and
\* payload fields.
C25_OneAttemptSameEnvelope ==
    \A t \in SendCalls :
        /\ call[t].kafkaSends <= 1
        /\ call[t].sqsSends <= 1
        /\ (call[t].kafkaSends = 1 /\ call[t].sqsSends = 1)
           => /\ call[t].sqsBody = JsonDumps(call[t].kafkaValue)
              /\ DOMAIN call[t].sqsBody = DOMAIN call[t].kafkaValue
              /\ \A k \in MetaKeys : call[t].sqsBody[k] = call[t].kafkaValue[k]

\* a finished call that tried the streaming client, then the queue client
C25_Witness ==
    \E t \in SendCalls :
        /\ pc[t] = "idle"
        /\ call[t].kafkaSends = 1 /\ call[t].kafkaRaised
        /\ call[t].sqsSends = 1
        /\ call[t].sqsBody["message_id"] = call[t].kafkaValue["message_id"]

\* ---------------------------------------------------------------- C26
\* the backends that accepted an envelope from a send_message call
AcceptedBackends ==
    {b \in {"kafka", "sqs"} :
        \E t \in SendCalls : IF b = "kafka" THEN call[t].kafkaOk ELSE call[t].sqsOk}

\* the backends whose messages reached the consumer's handler
DeliveredBackends == {handled[i].src : i \in 1..Len(handled)}

\* C26: in the local profile the producer holds at most the queue handle
\* and the consumer at most the streaming handle, so no backend that
\* accepted a producer's envelope is a backend from which the consumer's
\* handler is fed.
C26_LocalBackendsDisjoint ==
    (cfg.loaded /\ cfg.environment = "local")
    => /\ \A p \in Producers : producers[p].kafka_producer = None
       /\ \A k \in KClients : kclient[k] = "unused"
       /\ ~consumer.sqs_client
       /\ cpc \notin {"sqs_loop", "sqs_sleep", "sqs_batch", "sqs_handler"}
       /\ AcceptedBackends \cap DeliveredBackends = {}

\* local profile: the queue accepted the producer's envelope while the
\* consumer's handler was fed from the streaming client
C26_Witness ==
    /\ cfg.loaded /\ cfg.environment = "local"
    /\ AcceptedBackends = {"sqs"}
    /\ DeliveredBackends = {"kafka"}
    /\ producers[Own].sqs_client
    /\ consumer.kafka_consumer

\* ---------------------------------------------------------------- C27
\* C27: on a MessageProducer used directly, with no close() call, the
\* concurrent send_message and initialize calls construct and start the
\* streaming client at most once: at most one client is started, and a
\* started client is the one the producer refers to (none is overwritten).
C27_OneStreamingClient ==
    (NoClose /\ \A t \in Tasks : call[t].op # "close")
    => /\ Cardinality({k \in KClients : kclient[k] = "started"}) <= 1
       /\ \A k \in KClients :
             kclient[k] = "started" => producers[Own].kafka_producer = k

\* ---------------------------------------------------------------- C28
\* the step in which initialize() raises inside get_message_producer
GetRaises(t) ==
    /\ call[t].op = "get" /\ pc[t] = "gmp_lock"
    /\ call'[t].raised = "MessagingError"

\* C28: when initialize() raises inside get_message_producer, the shared
\* reference stays null, the lock is released (handed to the first waiter),
\* and only the caller that ran the initialization sees the MessagingError;
\* a caller that then finds the reference null under the lock initializes a
\* MessageProducer constructed for it; and an instance whose initialization
\* raised is never the published one.
C28_FailedInitNotPublished ==
    [][\A t \in Tasks :
          /\ GetRaises(t)
             => /\ message_producer = None /\ message_producer' = None
                /\ lockHolder = t /\ lockHolder' # t
                /\ lockHolder' = (IF lockWaiters = <<>> THEN None ELSE Head(lockWaiters))
                /\ pc'[t] = "idle"
                /\ ~producers'[call'[t].p].initialized
                /\ \A u \in Tasks \ {t} : call'[u] = call[u] /\ pc'[u] = pc[u]
          /\ (pc[t] = "gmp_lock" /\ pc'[t] # "gmp_lock" /\ message_producer = None)
             => /\ ~producers[call'[t].p].constructed
                /\ producers'[call'[t].p].constructed
                /\ producers'[call'[t].p].init_runs = 1
          /\ (call'[t].op = "get" /\ call'[t].raised = "MessagingError")
             => message_producer' # call'[t].p ]_vars

\* the first caller's initialization raised; the caller that waited for the
\* lock initialized another instance, which is the published one
C28_Witness ==
    \E t, u \in Tasks :
        /\ call[t].op = "get" /\ call[t].raised = "MessagingError" /\ pc[t] = "idle"
        /\ call[u].op = "get" /\ call[u].waited /\ call[u].ret = "producer"
        /\ call[u].retp # call[t].p
        /\ call[u].retp = message_producer
        /\ lockHolder = None

\* ---------------------------------------------------------------- C29
\* C29: the running flag is true only while a consumption loop executes:
\* once start_consuming has terminated by raising MessagingError because no
\* transport exists, the queue URL is not configured or the transport
\* failed, the running flag is false.
C29_RaisedNotRunning ==
    (cpc = "raised" /\ craisedAt \in {"no_transport", "sqs_queue_url", "kafka", "sqs"})
    => ~consumer.running

\* ---------------------------------------------------------------- C30
\* C30: in the queue loop, a message for which the handler returned without
\* error is never passed to the handler again, also when the delete_message
\* call that follows fails.
C30_HandledOnce ==
    \A i, j \in 1..Len(handled) :
        (/\ i < j
         /\ handled[i].src = "sqs" /\ handled[i].result = "ok"
         /\ handled[j].src = "sqs")
        => handled[j].id # handled[i].id

====
